---- MODULE Spec2Model ----
(***************************************************************************)
(* Forensic credit tool (src/app.py): the calculation engine               *)
(* calculate_metrics, the memo generator generate_formal_memo and the      *)
(* script main() that feeds them from the cached dataset or from the       *)
(* manual-entry form.                                                      *)
(*                                                                         *)
(* Amounts are integers, in units of 100: the form's default Revenue of     *)
(* 10000.0 is 100.  A float column is modelled by the exact rational       *)
(* [n, d] (d # 0) it stands for; comparisons against the float literals of *)
(* the source (1.23, 2.9, 0.8, ...) are exact comparisons of rationals.    *)
(***************************************************************************)
EXTENDS Integers, Sequences, FiniteSets, TLC

VARIABLES
    cached,   \* st.cache_data holds the result of load_dataset
    raw_df,   \* the frame load_dataset returned
    mode,     \* the "Data Source" radio of the last run
    df,       \* the frame the last run passed to calculate_metrics
    row,      \* the row of df_proc the report is rendered for
    memo,     \* what generate_formal_memo returned for row
    zone,     \* the zone line of the "Distress & EWS" tab
    csv,      \* financials_master.csv, as the text of its cells
    raised    \* the exception that escaped load_dataset

vars == <<cached, raw_df, mode, df, row, memo, zone, csv, raised>>

(***************************************************************************)
(* Numbers                                                                 *)
(***************************************************************************)
Max(a, b) == IF a >= b THEN a ELSE b

\* a float that is the quotient n / d
Frac(n, d) == [n |-> n, d |-> d]

\* r < a / b  and  r > a / b, for a rational r and b > 0
FracLt(r, a, b) == IF r.d > 0 THEN r.n * b < a * r.d ELSE r.n * b > a * r.d

FracGt(r, a, b) == IF r.d > 0 THEN r.n * b > a * r.d ELSE r.n * b < a * r.d

\* Series.replace(0, 1) on one cell; the mutant divides by the column as it is
ReplaceZeroByOne_unguarded(x) == x

ReplaceZeroByOne(x) == IF x = 0 THEN 1 ELSE x

\* column / column.replace(0, 1) on one cell
SafeDiv(a, b) == Frac(a, ReplaceZeroByOne(b))

(***************************************************************************)
(* Series.pct_change().fillna(0) on one cell: cur / prev - 1.  The first   *)
(* cell of a column has no previous cell and is NaN, as is 0 / 0; fillna   *)
(* turns NaN into 0.  x / 0 for x # 0 is +inf or -inf, which fillna keeps. *)
(* inf is 0 for a finite value n / d, 1 for +inf, -1 for -inf.             *)
(***************************************************************************)
Growth(inf, n, d) == [inf |-> inf, n |-> n, d |-> d]

GrowthZero == Growth(0, 0, 1)

PctChange(col, i) ==
    IF i = 1 THEN GrowthZero
    ELSE LET prev == col[i - 1]
             cur  == col[i]
         IN  IF prev = 0
             THEN IF cur = 0 THEN GrowthZero
                  ELSE IF cur > 0 THEN Growth(1, 0, 1) ELSE Growth(-1, 0, 1)
             ELSE Growth(0, cur - prev, prev)

\* rec > sales * 1.3 on floats with infinities
GrowthExceeds(rec, sales) ==
    IF rec.inf = 1 THEN sales.inf # 1
    ELSE IF rec.inf = -1 THEN FALSE
    ELSE IF sales.inf = 1 THEN FALSE
    ELSE IF sales.inf = -1 THEN TRUE
    ELSE IF rec.d * sales.d > 0
         THEN rec.n * 10 * sales.d > 13 * sales.n * rec.d
         ELSE rec.n * 10 * sales.d < 13 * sales.n * rec.d

(***************************************************************************)
(* calculate_metrics                                                       *)
(***************************************************************************)
Column(d, name) == [i \in 1..Len(d) |-> d[i][name]]

\* Altman Z''-score: 3.25 + 6.56*X1 + 3.26*X2 + 6.72*X3 + 1.05*X4, with
\* X1..X3 over ta (TotalAssets or 1) and X4 over td (TotalDebt or 1), kept as
\* the rational (325*ta*td + a*td + b*ta) / (100*ta*td)
Z_Score(r) ==
    LET ta == ReplaceZeroByOne(r.TotalAssets)
        td == ReplaceZeroByOne(r.TotalDebt)
        a  == 656 * (r.CurrentAssets - r.CurrentLiabilities)
                 + 326 * r.PAT + 672 * r.EBIT
        b  == 105 * r.Equity
    IN  Frac(325 * ta * td + a * td + b * ta, 100 * ta * td)

\* mutant: the Decline/Stress test moved in front of the Introduction test
get_stage_decline_first(r) ==
    LET cfo == r.CFO
        cfi == r.CFI
        cff == r.CFF
    IN  IF cfo < 0 THEN "Decline/Stress"
        ELSE IF cfo < 0 /\ cfi < 0 /\ cff > 0 THEN "Introduction"
        ELSE IF cfo > 0 /\ cfi < 0 /\ cff > 0 THEN "Growth"
        ELSE IF cfo > 0 /\ cfi < 0 /\ cff < 0 THEN "Mature"
        ELSE "Transition"

get_stage(r) ==
    LET cfo == r.CFO
        cfi == r.CFI
        cff == r.CFF
    IN  IF cfo < 0 /\ cfi < 0 /\ cff > 0 THEN "Introduction"
        ELSE IF cfo > 0 /\ cfi < 0 /\ cff > 0 THEN "Growth"
        ELSE IF cfo > 0 /\ cfi < 0 /\ cff < 0 THEN "Mature"
        ELSE IF cfo < 0 THEN "Decline/Stress"
        ELSE "Transition"

\* mutant: the manipulation deduction applied with the wrong sign
get_score_sign_slip(r) ==
    LET s0 == 100
        s1 == IF FracLt(r.Z_Score, 123, 100) THEN s0 - 25
              ELSE IF FracLt(r.Z_Score, 29, 10) THEN s0 - 10
              ELSE s0
        s2 == IF FracLt(r.CFO_to_PAT, 8, 10) THEN s1 - 15 ELSE s1
        s3 == IF FracGt(r.Debt_Equity, 2, 1) THEN s2 - 15 ELSE s2
        s4 == IF FracLt(r.Current_Ratio, 1, 1) THEN s3 - 10 ELSE s3
        s5 == IF FracLt(r.ICR, 3, 2) THEN s4 - 10 ELSE s4
        s6 == IF r.Beneish_Flag_DSRI = 1 THEN s5 + 10 ELSE s5
    IN  Max(0, s6)

\* mutant: the cash-conversion test written <= 0.8
get_score_inclusive(r) ==
    LET s0 == 100
        s1 == IF FracLt(r.Z_Score, 123, 100) THEN s0 - 25
              ELSE IF FracLt(r.Z_Score, 29, 10) THEN s0 - 10
              ELSE s0
        s2 == IF ~FracGt(r.CFO_to_PAT, 8, 10) THEN s1 - 15 ELSE s1
        s3 == IF FracGt(r.Debt_Equity, 2, 1) THEN s2 - 15 ELSE s2
        s4 == IF FracLt(r.Current_Ratio, 1, 1) THEN s3 - 10 ELSE s3
        s5 == IF FracLt(r.ICR, 3, 2) THEN s4 - 10 ELSE s4
        s6 == IF r.Beneish_Flag_DSRI = 1 THEN s5 - 10 ELSE s5
    IN  Max(0, s6)

\* mutant: the two distress deductions exchanged
get_score_bands_swapped(r) ==
    LET s0 == 100
        s1 == IF FracLt(r.Z_Score, 123, 100) THEN s0 - 10
              ELSE IF FracLt(r.Z_Score, 29, 10) THEN s0 - 25
              ELSE s0
        s2 == IF FracLt(r.CFO_to_PAT, 8, 10) THEN s1 - 15 ELSE s1
        s3 == IF FracGt(r.Debt_Equity, 2, 1) THEN s2 - 15 ELSE s2
        s4 == IF FracLt(r.Current_Ratio, 1, 1) THEN s3 - 10 ELSE s3
        s5 == IF FracLt(r.ICR, 3, 2) THEN s4 - 10 ELSE s4
        s6 == IF r.Beneish_Flag_DSRI = 1 THEN s5 - 10 ELSE s5
    IN  Max(0, s6)

\* mutant: the second distress test an `if`, not an `elif`
get_score_both_bands(r) ==
    LET s0 == 100
        s1 == IF FracLt(r.Z_Score, 123, 100) THEN s0 - 25 ELSE s0
        s1b == IF FracLt(r.Z_Score, 29, 10) THEN s1 - 10 ELSE s1
        s2 == IF FracLt(r.CFO_to_PAT, 8, 10) THEN s1b - 15 ELSE s1b
        s3 == IF FracGt(r.Debt_Equity, 2, 1) THEN s2 - 15 ELSE s2
        s4 == IF FracLt(r.Current_Ratio, 1, 1) THEN s3 - 10 ELSE s3
        s5 == IF FracLt(r.ICR, 3, 2) THEN s4 - 10 ELSE s4
        s6 == IF r.Beneish_Flag_DSRI = 1 THEN s5 - 10 ELSE s5
    IN  Max(0, s6)

get_score(r) ==
    LET s0 == 100
        s1 == IF FracLt(r.Z_Score, 123, 100) THEN s0 - 25
              ELSE IF FracLt(r.Z_Score, 29, 10) THEN s0 - 10
              ELSE s0
        s2 == IF FracLt(r.CFO_to_PAT, 8, 10) THEN s1 - 15 ELSE s1
        s3 == IF FracGt(r.Debt_Equity, 2, 1) THEN s2 - 15 ELSE s2
        s4 == IF FracLt(r.Current_Ratio, 1, 1) THEN s3 - 10 ELSE s3
        s5 == IF FracLt(r.ICR, 3, 2) THEN s4 - 10 ELSE s4
        s6 == IF r.Beneish_Flag_DSRI = 1 THEN s5 - 10 ELSE s5
    IN  Max(0, s6)

\* the columns calculate_metrics adds to row i of the frame d, before the two
\* row-wise apply() passes
Ratios(d, i) ==
    LET r  == d[i]
        sg == PctChange(Column(d, "Revenue"), i)
        rg == PctChange(Column(d, "Receivables"), i)
    IN  [Current_Ratio  |-> SafeDiv(r.CurrentAssets, r.CurrentLiabilities),
         OCF_Ratio      |-> SafeDiv(r.CFO, r.CurrentLiabilities),
         NPM            |-> SafeDiv(r.PAT * 100, r.Revenue),
         ROA            |-> SafeDiv(r.PAT * 100, r.TotalAssets),
         ROE            |-> SafeDiv(r.PAT * 100, r.Equity),
         ROCE           |-> SafeDiv(r.EBIT * 100, r.TotalDebt + r.Equity),
         Debtor_Days    |-> SafeDiv(r.Receivables * 365, r.Revenue),
         Debt_Equity    |-> SafeDiv(r.TotalDebt, r.Equity),
         ICR            |-> SafeDiv(r.EBIT, r.Interest),
         Dupont_NPM     |-> SafeDiv(r.PAT, r.Revenue),
         Asset_Turnover |-> SafeDiv(r.Revenue, r.TotalAssets),
         Fin_Leverage   |-> SafeDiv(r.TotalAssets, r.Equity),
         CFO_to_PAT     |-> SafeDiv(r.CFO, r.PAT),
         Accruals_Ratio |-> SafeDiv(r.PAT - r.CFO, r.TotalAssets),
         Sales_Growth   |-> sg,
         Rec_Growth     |-> rg,
         Beneish_Flag_DSRI |-> IF GrowthExceeds(rg, sg) THEN 1 ELSE 0,
         Z_Score        |-> Z_Score(r),
         CF_Debt_Cov    |-> SafeDiv(r.CFO, r.TotalDebt)]

MetricsRow(d, i) ==
    LET base   == d[i] @@ Ratios(d, i)
        staged == base @@ [Life_Cycle |-> get_stage(base)]
    IN  staged @@ [Credit_Score |-> get_score(staged)]

calculate_metrics(d) ==
    IF d = <<>> THEN d ELSE [i \in 1..Len(d) |-> MetricsRow(d, i)]

(***************************************************************************)
(* generate_formal_memo                                                    *)
(***************************************************************************)
NoteDistress == "Altman Z''-Score indicates potential distress zone."

NoteEarnings ==
    "Earnings Quality Concern: Operating Cash Flow is significantly lower than Net Profit."

NoteReceivables ==
    "Revenue Recognition Alert: Receivables are growing faster than Revenue."

NoteLeverage ==
    "Leverage Alert: Debt-to-Equity ratio exceeds conservative thresholds."

NoRedFlags == "No material forensic red flags detected."

\* mutant: the approval test written score > 75
Decision_exclusive(r) ==
    LET score == r.Credit_Score
    IN  IF score > 75 THEN [verdict |-> "APPROVE", risk_profile |-> "LOW RISK"]
        ELSE IF score >= 50
             THEN [verdict |-> "REVIEW", risk_profile |-> "MEDIUM RISK"]
             ELSE [verdict |-> "REJECT", risk_profile |-> "HIGH RISK"]

Decision(r) ==
    LET score == r.Credit_Score
    IN  IF score >= 75 THEN [verdict |-> "APPROVE", risk_profile |-> "LOW RISK"]
        ELSE IF score >= 50
             THEN [verdict |-> "REVIEW", risk_profile |-> "MEDIUM RISK"]
             ELSE [verdict |-> "REJECT", risk_profile |-> "HIGH RISK"]

\* mutant: the earnings-quality note written <= 0.8
forensic_notes_inclusive(r) ==
    LET n0 == <<>>
        n1 == IF FracLt(r.Z_Score, 123, 100) THEN Append(n0, NoteDistress) ELSE n0
        n2 == IF ~FracGt(r.CFO_to_PAT, 8, 10) THEN Append(n1, NoteEarnings) ELSE n1
        n3 == IF r.Beneish_Flag_DSRI = 1 THEN Append(n2, NoteReceivables) ELSE n2
        n4 == IF FracGt(r.Debt_Equity, 5, 2) THEN Append(n3, NoteLeverage) ELSE n3
    IN  n4

forensic_notes(r) ==
    LET n0 == <<>>
        n1 == IF FracLt(r.Z_Score, 123, 100) THEN Append(n0, NoteDistress) ELSE n0
        n2 == IF FracLt(r.CFO_to_PAT, 8, 10) THEN Append(n1, NoteEarnings) ELSE n1
        n3 == IF r.Beneish_Flag_DSRI = 1 THEN Append(n2, NoteReceivables) ELSE n2
        n4 == IF FracGt(r.Debt_Equity, 5, 2) THEN Append(n3, NoteLeverage) ELSE n3
    IN  n4

\* forensic_text, as its lines: the standard line, or "- note" per note
forensic_text(notes) ==
    IF notes = <<>> THEN <<NoRedFlags>>
    ELSE [k \in 1..Len(notes) |-> <<"- ", notes[k]>>]

generate_formal_memo(r) ==
    LET dec   == Decision(r)
        notes == forensic_notes(r)
    IN  [verdict        |-> dec.verdict,
         risk_profile   |-> dec.risk_profile,
         forensic_notes |-> notes,
         forensic_text  |-> forensic_text(notes)]

(***************************************************************************)
(* main: the "Distress & EWS" tab                                          *)
(***************************************************************************)
ZoneOf(z) ==
    IF FracGt(z, 29, 10) THEN "SAFE"
    ELSE IF FracGt(z, 123, 100) THEN "GREY"
    ELSE "DISTRESS"

(***************************************************************************)
(* State of one script run                                                 *)
(***************************************************************************)
\* row = None
NoRow == [none |-> TRUE]

\* the file is not looked at
NoCsv == [none |-> TRUE]

\* no exception
NoError == "None"

NoMemo == [none |-> TRUE]

NoZone == "NoZone"

\* the report main() renders for a row: the verdict tab and the zone line
RenderReport(r) ==
    /\ row' = r
    /\ memo' = generate_formal_memo(r)
    /\ zone' = ZoneOf(r.Z_Score)

RenderNothing ==
    /\ row' = NoRow
    /\ memo' = NoMemo
    /\ zone' = NoZone

(***************************************************************************)
(* Inputs                                                                  *)
(***************************************************************************)
\* the values the manual-entry form starts with
FormDefaults ==
    [Company |-> "New Applicant", Year |-> 2025,
     Revenue |-> 100, EBIT |-> 20, PAT |-> 15, Interest |-> 5,
     TotalAssets |-> 150, TotalDebt |-> 50, Equity |-> 80,
     CurrentAssets |-> 60, CurrentLiabilities |-> 40, Receivables |-> 20,
     CFO |-> 12, CFI |-> -5, CFF |-> -2]

\* records of the dataset: rows of financials_master.csv after load_dataset
Companies == {"Alpha", "Beta"}

Years == {2023, 2024}

DsRevenue == {0, 10, 11}

DsReceivables == {2, 3}

MaxRows == 3

DsRecords ==
    { [FormDefaults EXCEPT !.Company = c, !.Year = y,
                           !.Revenue = rev, !.Receivables = rec] :
        c \in Companies, y \in Years, rev \in DsRevenue, rec \in DsReceivables }

HasKey(d, r) ==
    \E i \in 1..Len(d) : d[i].Company = r.Company /\ d[i].Year = r.Year

\* the datasets of n rows, in any row order, one row per company and year
RECURSIVE DatasetsOfLen(_)
DatasetsOfLen(n) ==
    IF n = 0 THEN { <<>> }
    ELSE { Append(d, r) : <<d, r>> \in
             { p \in DatasetsOfLen(n - 1) \X DsRecords : ~HasKey(p[1], p[2]) } }

Datasets == UNION { DatasetsOfLen(n) : n \in 0..MaxRows }

\* what a user types into the manual-entry form
ManualForms ==
    { [FormDefaults EXCEPT !.Revenue = rev, !.CFO = cfo] :
        rev \in {0, 100}, cfo \in {-1, 12} }

(***************************************************************************)
(* main: one action per script run                                         *)
(***************************************************************************)
Init ==
    /\ cached = FALSE
    /\ raw_df = <<>>
    /\ mode = "Select from Dataset"
    /\ df = <<>>
    /\ row = NoRow
    /\ memo = NoMemo
    /\ zone = NoZone
    /\ csv = NoCsv
    /\ raised = NoError

\* load_dataset under st.cache_data: the file is read on the first call only
LoadDataset ==
    /\ cached' = TRUE
    /\ IF cached THEN UNCHANGED raw_df ELSE raw_df' \in Datasets
    /\ UNCHANGED <<csv, raised>>

\* a run in dataset mode without the "Run Analysis" button
DatasetPage ==
    /\ mode' = "Select from Dataset"
    /\ LoadDataset
    /\ df' = <<>>
    /\ RenderNothing

\* a run in dataset mode with company and year selected and the button pressed
DatasetAnalysis(company, year) ==
    /\ cached
    /\ raw_df # <<>>
    /\ \E i \in 1..Len(raw_df) :
          raw_df[i].Company = company /\ raw_df[i].Year = year
    /\ mode' = "Select from Dataset"
    /\ UNCHANGED <<cached, raw_df, csv, raised>>
    /\ df' = raw_df
    /\ LET df_proc == calculate_metrics(raw_df)
           first   == CHOOSE i \in 1..Len(df_proc) :
                         /\ df_proc[i].Company = company
                         /\ df_proc[i].Year = year
                         /\ \A j \in 1..(i - 1) :
                               ~(df_proc[j].Company = company
                                 /\ df_proc[j].Year = year)
       IN  RenderReport(df_proc[first])

\* a run in manual mode without the form submitted
ManualPage ==
    /\ mode' = "Manual Data Entry"
    /\ UNCHANGED <<cached, raw_df, csv, raised>>
    /\ df' = <<>>
    /\ RenderNothing

\* a run in manual mode with the form submitted
ManualAnalysis(form) ==
    /\ mode' = "Manual Data Entry"
    /\ UNCHANGED <<cached, raw_df, csv, raised>>
    /\ df' = <<form>>
    /\ LET df_proc == calculate_metrics(<<form>>)
       IN  RenderReport(df_proc[1])

Next ==
    \/ DatasetPage
    \/ \E company \in Companies, year \in Years : DatasetAnalysis(company, year)
    \/ ManualPage
    \/ \E form \in ManualForms : ManualAnalysis(form)

Spec == Init /\ [][Next]_vars

(***************************************************************************)
(* The calculation pipeline on its own: calculate_metrics applied to a     *)
(* frame, then the report of its last row.                                 *)
(***************************************************************************)
NoMode == "NoMode"

CalcCFO == {-1, 0, 12}

CalcCFI == {-5, 0, 5}

CalcCFF == {-2, 0, 2}

CalcPAT == {0, 15}

CalcEBIT == {5, 20}

CalcInterest == {0, 5}

CalcTotalAssets == {0, 150}

CalcTotalDebt == {0, 50}

CalcEquity == {0, 20, 80}

CalcCurrentAssets == {20, 40, 60}

CalcCurrentLiabilities == {0, 40}

CalcRevenue == {0, 11}

CalcReceivables == {2, 3}

\* (Revenue, Receivables) of a row before the last one
PriorFigures == { <<10, 2>>, <<0, 2>> }

\* the longest series passed to calculate_metrics
MaxSeries == 2

\* every combination of the figures the score reads
ScoreRecords ==
    { [FormDefaults EXCEPT
         !.Company = "Alpha", !.Year = 2024,
         !.Revenue = rev, !.EBIT = ebit, !.PAT = pat, !.Interest = int,
         !.TotalAssets = ta, !.TotalDebt = td, !.Equity = eq,
         !.CurrentAssets = ca, !.CurrentLiabilities = cl,
         !.Receivables = rec, !.CFO = cfo] :
        rev \in CalcRevenue, ebit \in CalcEBIT, pat \in CalcPAT,
        int \in CalcInterest, ta \in CalcTotalAssets, td \in CalcTotalDebt,
        eq \in CalcEquity, ca \in CalcCurrentAssets,
        cl \in CalcCurrentLiabilities, rec \in CalcReceivables,
        cfo \in CalcCFO }

\* every sign triple of the three cash flows
StageRecords ==
    { [FormDefaults EXCEPT !.CFO = cfo, !.CFI = cfi, !.CFF = cff, !.PAT = pat] :
        cfo \in CalcCFO, cfi \in CalcCFI, cff \in CalcCFF, pat \in CalcPAT }

\* records on the thresholds: Z_Score = 1.23, Z_Score = 2.9, Debt_Equity = 2.0
\* and 2.5, ICR = 1.5, Equity = 0 with the other form defaults
BoundaryRecords ==
    { FormDefaults,
      [FormDefaults EXCEPT !.Equity = 0],
      [FormDefaults EXCEPT !.CurrentAssets = 40, !.PAT = 5, !.EBIT = -40,
                           !.TotalAssets = 125, !.Equity = 0],
      [FormDefaults EXCEPT !.CurrentAssets = 40, !.PAT = 0, !.EBIT = -20,
                           !.TotalAssets = 384, !.Equity = 0],
      [FormDefaults EXCEPT !.Equity = 25],
      [FormDefaults EXCEPT !.Equity = 20],
      [FormDefaults EXCEPT !.EBIT = 6, !.Interest = 4] }

\* the record of r's entity `back` years before r, with the figures fig
PriorOf(r, fig, back) ==
    [FormDefaults EXCEPT !.Company = r.Company, !.Year = r.Year - back,
                         !.Revenue = fig[1], !.Receivables = fig[2]]

\* the runs of n prior figures, oldest first
RECURSIVE PriorRuns(_)
PriorRuns(n) ==
    IF n = 0 THEN { <<>> }
    ELSE { Append(run, fig) : run \in PriorRuns(n - 1), fig \in PriorFigures }

\* the series that ends with r and starts with the records of the run figs
SeriesEnding(r, figs) ==
    [k \in 1..(Len(figs) + 1) |->
        IF k = Len(figs) + 1 THEN r
        ELSE PriorOf(r, figs[k], Len(figs) + 1 - k)]

\* two-year series on the threshold Rec_Growth = 1.3 * Sales_Growth (13% against
\* 10%) and with receivables growing 50% against 10%
BoundaryFrames ==
    { << [FormDefaults EXCEPT !.Year = 2024, !.Revenue = 100, !.Receivables = 100],
         [FormDefaults EXCEPT !.Revenue = 110, !.Receivables = 113] >>,
      << [FormDefaults EXCEPT !.Year = 2024, !.Revenue = 10, !.Receivables = 2],
         [FormDefaults EXCEPT !.Revenue = 11, !.Receivables = 3] >> }

CalcFrames ==
    { <<r>> : r \in ScoreRecords \cup StageRecords \cup BoundaryRecords }
      \cup { SeriesEnding(r, figs) :
                r \in ScoreRecords,
                figs \in UNION { PriorRuns(n) : n \in 1..(MaxSeries - 1) } }
      \cup BoundaryFrames

InitCalc ==
    /\ cached = FALSE
    /\ raw_df = <<>>
    /\ mode = NoMode
    /\ df \in CalcFrames
    /\ row = NoRow
    /\ memo = NoMemo
    /\ zone = NoZone
    /\ csv = NoCsv
    /\ raised = NoError

CalcStep ==
    /\ mode = NoMode
    /\ row = NoRow
    /\ row' = calculate_metrics(df)[Len(df)]
    /\ UNCHANGED <<cached, raw_df, mode, df, memo, zone, csv, raised>>

ReportStep ==
    /\ mode = NoMode
    /\ row # NoRow
    /\ memo = NoMemo
    /\ RenderReport(row)
    /\ UNCHANGED <<cached, raw_df, mode, df, csv, raised>>

NextCalc == CalcStep \/ ReportStep

SpecCalc == InitCalc /\ [][NextCalc]_vars

(***************************************************************************)
(* load_dataset.  A cell of the file is its text, a sequence of            *)
(* characters; a float64 is a finite number, an infinity or NaN.  Spec     *)
(* draws the frame load_dataset returned from Datasets, whose cells are    *)
(* all finite; here the frame is computed from the text of the file.       *)
(***************************************************************************)
cols ==
    << "Revenue", "EBITDA", "EBIT", "PAT", "Interest",
       "TotalAssets", "TotalDebt", "Equity", "CurrentAssets", "CurrentLiabilities",
       "Inventory", "Receivables", "Cash",
       "CFO", "CFI", "CFF", "Capex" >>

Range(seq) == { seq[k] : k \in 1..Len(seq) }

Num(v) == [kind |-> "num", v |-> v]

Inf(sign) == [kind |-> "inf", v |-> sign]

NaN == [kind |-> "nan", v |-> 0]

\* the missing value read_csv puts in an object column
NA == <<"NaN">>

\* read_csv: an empty field and the default NA strings are read as missing
NAStrings == { <<>>, <<"n", "a", "n">>, <<"N", "A">> }

read_cell(text) == IF text \in NAStrings THEN NA ELSE text

\* Series.str.replace(',', '', regex=True); a missing value stays missing
str_replace(cell) ==
    LET Kept(ch) == ch # ","
    IN  IF cell = NA THEN NA ELSE SelectSeq(cell, Kept)

IsDigit(ch) == ch \in {"0", "1", "2", "3", "4", "5", "6", "7", "8", "9"}

DigitValue(ch) ==
    CASE ch = "0" -> 0 [] ch = "1" -> 1 [] ch = "2" -> 2 [] ch = "3" -> 3
      [] ch = "4" -> 4 [] ch = "5" -> 5 [] ch = "6" -> 6 [] ch = "7" -> 7
      [] ch = "8" -> 8 [] ch = "9" -> 9

AllDigits(text) == text # <<>> /\ \A k \in 1..Len(text) : IsDigit(text[k])

RECURSIVE NumeralValue(_)
NumeralValue(text) ==
    IF text = <<>> THEN 0
    ELSE 10 * NumeralValue(SubSeq(text, 1, Len(text) - 1))
           + DigitValue(text[Len(text)])

Lower(ch) ==
    CASE ch = "I" -> "i" [] ch = "N" -> "n" [] ch = "F" -> "f"
      [] ch = "T" -> "t" [] ch = "Y" -> "y" [] OTHER -> ch

\* pd.to_numeric(errors='coerce') on one cell: a signed numeral is its
\* number, "inf" and "infinity" in any case are an infinity, a missing value
\* and every other text are NaN
to_numeric(cell) ==
    IF cell = NA \/ cell = <<>> THEN NaN
    ELSE LET signed == cell[1] \in {"-", "+"}
             sign   == IF cell[1] = "-" THEN -1 ELSE 1
             body   == IF signed THEN Tail(cell) ELSE cell
             low    == [k \in 1..Len(body) |-> Lower(body[k])]
         IN  IF AllDigits(body) THEN Num(sign * NumeralValue(body))
             ELSE IF low \in { <<"i", "n", "f">>,
                               <<"i", "n", "f", "i", "n", "i", "t", "y">> }
                  THEN Inf(sign)
                  ELSE NaN

\* Series.fillna(0)
fillna(x) == IF x.kind = "nan" THEN Num(0) ELSE x

\* the Year column: to_numeric, fillna(0), and astype(int), which raises on
\* a value that is not finite
year_column(frame) ==
    [i \in 1..Len(frame) |-> fillna(to_numeric(frame[i]["Year"]))]

\* what a call of load_dataset does with the file f: the frame it returns, or
\* the exception that escapes it
load_dataset(f) ==
    IF ~f.exists THEN [raised |-> NoError, df |-> <<>>]
    ELSE LET frame == [i \in 1..Len(f.rows) |->
                          [c \in f.header |-> read_cell(f.rows[i][c])]]
             Cleaned(i, c) ==
                 IF c \in Range(cols)
                 THEN IF c \notin f.header THEN Num(0)
                      ELSE fillna(to_numeric(str_replace(frame[i][c])))
                 ELSE frame[i][c]
             numeric == [i \in 1..Len(frame) |->
                            [c \in f.header \cup Range(cols) |-> Cleaned(i, c)]]
             years   == year_column(frame)
         IN  IF "Year" \notin f.header THEN [raised |-> NoError, df |-> numeric]
             ELSE IF \E i \in 1..Len(frame) : years[i].kind # "num"
                  THEN [raised |-> "IntCastingNaNError", df |-> <<>>]
                  ELSE [raised |-> NoError,
                        df |-> [i \in 1..Len(frame) |->
                                   [numeric[i] EXCEPT !["Year"] = years[i].v]]]

(***************************************************************************)
(* The loader on its own: load_dataset called once on a file.              *)
(***************************************************************************)
MaxFileRows == 2

RevenueTexts ==
    { <<>>,
      <<"1", "2", "0", "0">>,
      <<"1", ",", "2", "0", "0">>,
      <<"-", "5", "0">>,
      <<"a", "b", "c">>,
      <<"1", "2", "x">>,
      <<"-">>,
      <<",">>,
      <<"n", "a", "n">>,
      <<"i", "n", "f">>,
      <<"-", "I", "n", "f">> }

YearTexts ==
    { <<"2", "0", "2", "4">>,
      <<>>,
      <<"F", "Y", "2", "4">>,
      <<"2", ",", "0", "2", "4">>,
      <<"i", "n", "f">> }

Headers ==
    LET full == {"Company", "Year"} \cup Range(cols)
    IN  { full,
          full \ {"EBITDA", "Inventory", "Cash", "Capex"},
          full \ {"Revenue"},
          full \ {"Year"} }

\* a line of the file under the header h
CsvRow(h, revenue, year) ==
    [c \in h |-> IF c = "Revenue" THEN revenue
                 ELSE IF c = "Year" THEN year
                 ELSE IF c = "Company" THEN <<"A", "l", "p", "h", "a">>
                 ELSE <<"1", ",", "5", "0", "0">>]

\* the lines drawn under the header h: every Revenue text, every Year text
CsvLines(h) ==
    { CsvRow(h, revenue, <<"2", "0", "2", "4">>) : revenue \in RevenueTexts }
      \cup { CsvRow(h, <<"1", ",", "2", "0", "0">>, year) : year \in YearTexts }

RECURSIVE CsvRowsOfLen(_, _)
CsvRowsOfLen(h, n) ==
    IF n = 0 THEN { <<>> }
    ELSE { Append(rows, line) :
              rows \in CsvRowsOfLen(h, n - 1), line \in CsvLines(h) }

\* no file, or a file with a header and up to n lines
CsvFiles(n) ==
    { [exists |-> FALSE, header |-> {}, rows |-> <<>>] }
      \cup UNION { { [exists |-> TRUE, header |-> h, rows |-> rows] :
                       rows \in CsvRowsOfLen(h, k) } :
                    h \in Headers, k \in 0..n }

InitLoad ==
    /\ cached = FALSE
    /\ raw_df = <<>>
    /\ mode = NoMode
    /\ df = <<>>
    /\ row = NoRow
    /\ memo = NoMemo
    /\ zone = NoZone
    /\ csv \in CsvFiles(MaxFileRows)
    /\ raised = NoError

\* the first call of load_dataset: st.cache_data keeps what it returns, and
\* keeps nothing when it raises
LoadStep ==
    /\ csv # NoCsv
    /\ ~cached
    /\ raised = NoError
    /\ LET result == load_dataset(csv)
       IN  /\ raised' = result.raised
           /\ IF result.raised = NoError
              THEN cached' = TRUE /\ raw_df' = result.df
              ELSE UNCHANGED <<cached, raw_df>>
    /\ UNCHANGED <<mode, df, row, memo, zone, csv>>

NextLoad == LoadStep

SpecLoad == InitLoad /\ [][NextLoad]_vars

(***************************************************************************)
(* Properties                                                              *)
(***************************************************************************)
\* the divisor of a ratio as the specification words it: "x (or 1)"
OrOne(x) == IF x = 0 THEN 1 ELSE x

\* the distress index of the specification, in hundredths, as the quotient
\* IndexNum / IndexDen of integers
IndexDen(r) == OrOne(r.TotalAssets) * OrOne(r.TotalDebt)

IndexNum(r) ==
    325 * IndexDen(r)
      + 656 * (r.CurrentAssets - r.CurrentLiabilities) * OrOne(r.TotalDebt)
      + 326 * r.PAT * OrOne(r.TotalDebt)
      + 672 * r.EBIT * OrOne(r.TotalDebt)
      + 105 * r.Equity * OrOne(r.TotalAssets)

\* index < h / 100
IndexBelow(r, h) ==
    IF IndexDen(r) > 0 THEN IndexNum(r) < h * IndexDen(r)
    ELSE IndexNum(r) > h * IndexDen(r)

\* num / (den or 1) < a / b  and  > a / b, for b > 0
QuotientBelow(num, den, a, b) ==
    IF OrOne(den) > 0 THEN num * b < a * OrOne(den) ELSE num * b > a * OrOne(den)

QuotientAbove(num, den, a, b) ==
    IF OrOne(den) > 0 THEN num * b > a * OrOne(den) ELSE num * b < a * OrOne(den)

WeakCashConversion(r) == QuotientBelow(r.CFO, r.PAT, 8, 10)

HighLeverage(r) == QuotientAbove(r.TotalDebt, r.Equity, 2, 1)

LiquidityStress(r) == QuotientBelow(r.CurrentAssets, r.CurrentLiabilities, 1, 1)

WeakCoverage(r) == QuotientBelow(r.EBIT, r.Interest, 3, 2)

Deductions(r) ==
    (IF IndexBelow(r, 123) THEN 25 ELSE IF IndexBelow(r, 290) THEN 10 ELSE 0)
      + (IF WeakCashConversion(r) THEN 15 ELSE 0)
      + (IF HighLeverage(r) THEN 15 ELSE 0)
      + (IF LiquidityStress(r) THEN 10 ELSE 0)
      + (IF WeakCoverage(r) THEN 10 ELSE 0)
      + (IF r.Beneish_Flag_DSRI = 1 THEN 10 ELSE 0)

\* C1: the Credit_Score of every row calculate_metrics produces, for a record
\* alone or paired with a preceding record, lies in the closed range [0, 100].
C1_ScoreInRange ==
    row # NoRow => row.Credit_Score >= 0 /\ row.Credit_Score <= 100

\* a row with a preceding record, the manipulation flag set and points deducted
C1_Witness ==
    /\ row # NoRow
    /\ Len(df) >= 2
    /\ row.Beneish_Flag_DSRI = 1
    /\ row.Credit_Score < 50

\* C2: the score is max(0, 100 - D), D the sum of the independent deductions
\* 25 / 10 (distress index < 1.23 / < 2.9), 15 (CFO/PAT < 0.8), 15 (D/E > 2.0),
\* 10 (Current Ratio < 1.0), 10 (Interest Coverage < 1.5), 10 (flag), all
\* comparisons strict: CFO/PAT = 0.80 exactly (the form defaults, CFO 1200 and
\* PAT 1500) loses nothing, and Equity = 0 makes Debt-to-Equity TotalDebt / 1
\* and loses the 15 points.
C2_ScoreIsSumOfDeductions ==
    row # NoRow =>
        /\ row.Credit_Score = Max(0, 100 - Deductions(row))
        /\ (row.CFO = 12 /\ row.PAT = 15) => ~FracLt(row.CFO_to_PAT, 8, 10)
        /\ (Len(df) = 1 /\ df[1] = FormDefaults) => row.Credit_Score = 100
        /\ (Len(df) = 1 /\ df[1] = [FormDefaults EXCEPT !.Equity = 0]) =>
              /\ row.Debt_Equity = Frac(50, 1)
              /\ row.Credit_Score = 85

\* all six deductions at once
C2_Witness ==
    /\ row # NoRow
    /\ Deductions(row) = 85
    /\ row.Credit_Score = 15

\* C3: the memo's decision is a function of the score alone: >= 75 APPROVE /
\* LOW RISK, 50..74 REVIEW / MEDIUM RISK, below 50 REJECT / HIGH RISK.
C3_DecisionByScore ==
    memo # NoMemo =>
        LET score == row.Credit_Score
            dec   == <<memo.verdict, memo.risk_profile>>
        IN  /\ score >= 75 => dec = <<"APPROVE", "LOW RISK">>
            /\ (score >= 50 /\ score < 75) => dec = <<"REVIEW", "MEDIUM RISK">>
            /\ score < 50 => dec = <<"REJECT", "HIGH RISK">>

\* a memo for a score on the approval threshold
C3_Witness ==
    /\ memo # NoMemo
    /\ row.Credit_Score = 75
    /\ memo.verdict = "APPROVE"

Sign(x) == IF x < 0 THEN -1 ELSE IF x > 0 THEN 1 ELSE 0

\* the label of the specification's table for a sign triple
StageOfSigns(o, i, f) ==
    IF <<o, i, f>> = <<-1, -1, 1>> THEN "Introduction"
    ELSE IF <<o, i, f>> = <<1, -1, 1>> THEN "Growth"
    ELSE IF <<o, i, f>> = <<1, -1, -1>> THEN "Mature"
    ELSE IF o = -1 THEN "Decline/Stress"
    ELSE "Transition"

\* C4: the life-cycle label is the one the priority table gives the sign triple
\* of (CFO, CFI, CFF), for every triple of {negative, zero, positive}^3; a
\* zero CFO, and the all-zero triple, give Transition.
C4_StageBySignTriple ==
    row # NoRow =>
        /\ row.Life_Cycle = StageOfSigns(Sign(row.CFO), Sign(row.CFI), Sign(row.CFF))
        /\ row.CFO = 0 => row.Life_Cycle = "Transition"

\* CFO < 0, CFI < 0, CFF > 0 classified Introduction, not Decline/Stress
C4_Witness ==
    /\ row # NoRow
    /\ row.CFO < 0 /\ row.CFI < 0 /\ row.CFF > 0
    /\ row.Life_Cycle = "Introduction"

\* the ratio columns with the numerator and the divisor of each
RatioTable(r) ==
    { <<r.Current_Ratio, r.CurrentAssets, r.CurrentLiabilities>>,
      <<r.OCF_Ratio, r.CFO, r.CurrentLiabilities>>,
      <<r.NPM, r.PAT * 100, r.Revenue>>,
      <<r.ROA, r.PAT * 100, r.TotalAssets>>,
      <<r.ROE, r.PAT * 100, r.Equity>>,
      <<r.ROCE, r.EBIT * 100, r.TotalDebt + r.Equity>>,
      <<r.Debtor_Days, r.Receivables * 365, r.Revenue>>,
      <<r.Debt_Equity, r.TotalDebt, r.Equity>>,
      <<r.ICR, r.EBIT, r.Interest>>,
      <<r.Dupont_NPM, r.PAT, r.Revenue>>,
      <<r.Asset_Turnover, r.Revenue, r.TotalAssets>>,
      <<r.Fin_Leverage, r.TotalAssets, r.Equity>>,
      <<r.CFO_to_PAT, r.CFO, r.PAT>>,
      <<r.Accruals_Ratio, r.PAT - r.CFO, r.TotalAssets>>,
      <<r.CF_Debt_Cov, r.CFO, r.TotalDebt>> }

C6_ZoneByBands ==
    zone # NoZone =>
        /\ row.Z_Score = Frac(IndexNum(row), 100 * IndexDen(row))
        /\ zone = IF IndexBelow(row, 123) THEN "DISTRESS"
                  ELSE IF IndexBelow(row, 290) THEN "GREY"
                  ELSE "SAFE"

IsZeroGrowth(g) == g.inf = 0 /\ g.n = 0

\* r is the earliest record of its entity in the dataset d
IsEarliest(d, r) ==
    \A j \in 1..Len(d) : d[j].Company = r.Company => d[j].Year >= r.Year

\* C7: the first (earliest) record of each entity's series, also in a dataset
\* of several entities, and a single manual-entry record have Revenue growth
\* 0, Receivables growth 0 and manipulation flag 0.
C7_FirstRecordHasNoGrowth ==
    (/\ row # NoRow
     /\ \/ mode = "Manual Data Entry"
        \/ mode = "Select from Dataset" /\ IsEarliest(raw_df, row))
    => /\ IsZeroGrowth(row.Sales_Growth)
       /\ IsZeroGrowth(row.Rec_Growth)
       /\ row.Beneish_Flag_DSRI = 0

\* the rows of d that precede r in its entity's series
Earlier(d, r) ==
    { j \in 1..Len(d) : d[j].Company = r.Company /\ d[j].Year < r.Year }

\* the record of the immediately preceding fiscal year of r's series
Preceding(d, r) ==
    d[CHOOSE j \in Earlier(d, r) : \A k \in Earlier(d, r) : d[k].Year <= d[j].Year]

\* g is the growth (cur - prev) / prev
GrowthIs(g, prev, cur) == g.inf = 0 /\ g.n * prev = (cur - prev) * g.d

\* C8: in a multi-year series each record's Revenue growth and Receivables
\* growth are computed against the record of the immediately preceding fiscal
\* year of the same series, whatever the order of the rows in the input.
C8_GrowthAgainstPrecedingYear ==
    (/\ row # NoRow
     /\ mode = "Select from Dataset"
     /\ Earlier(raw_df, row) # {})
    => LET prior == Preceding(raw_df, row)
       IN  /\ prior.Revenue # 0 =>
                 GrowthIs(row.Sales_Growth, prior.Revenue, row.Revenue)
           /\ prior.Receivables # 0 =>
                 GrowthIs(row.Rec_Growth, prior.Receivables, row.Receivables)

\* C9: for a record with a preceding record in its series the manipulation
\* flag is 1 exactly when Receivables growth > 1.3 x Revenue growth, growth
\* being (current - prior) / prior, and a set flag costs 10 points of the score.
C9_FlagByGrowth ==
    (/\ row # NoRow
     /\ mode = "Select from Dataset"
     /\ Earlier(raw_df, row) # {})
    => LET prior == Preceding(raw_df, row)
       IN  (prior.Revenue > 0 /\ prior.Receivables > 0) =>
              /\ row.Beneish_Flag_DSRI = 1 <=>
                    10 * (row.Receivables - prior.Receivables) * prior.Revenue
                      > 13 * (row.Revenue - prior.Revenue) * prior.Receivables
              /\ row.Credit_Score = Max(0, 100 - Deductions(row))

\* the condition a rationale line reports
NoteKind(note) ==
    IF note = NoteDistress THEN "distress zone"
    ELSE IF note = NoteEarnings THEN "weak cash conversion"
    ELSE IF note = NoteLeverage THEN "high leverage"
    ELSE IF note = NoteReceivables THEN "manipulation flag"
    ELSE "other"

Triggered(r, kind) ==
    IF kind = "distress zone" THEN IndexBelow(r, 123)
    ELSE IF kind = "weak cash conversion" THEN WeakCashConversion(r)
    ELSE IF kind = "high leverage" THEN HighLeverage(r)
    ELSE IF kind = "liquidity stress" THEN LiquidityStress(r)
    ELSE r.Beneish_Flag_DSRI = 1

\* the conditions that fire for r, in the order the specification fixes
TriggeredKinds(r) ==
    LET Fires(kind) == Triggered(r, kind)
    IN  SelectSeq(<<"distress zone", "weak cash conversion", "high leverage",
                    "liquidity stress", "manipulation flag">>, Fires)

\* C10: the memo holds one rationale line per triggered condition among
\* distress zone, weak cash conversion, high leverage, liquidity stress and
\* manipulation flag, in that order, each on the threshold of its score
\* deduction, and the "no red flags" line exactly when none fires.
C10_RationalePerCondition ==
    memo # NoMemo =>
        /\ [k \in 1..Len(memo.forensic_notes) |-> NoteKind(memo.forensic_notes[k])]
              = TriggeredKinds(row)
        /\ memo.forensic_text = <<NoRedFlags>> <=> TriggeredKinds(row) = <<>>

\* x <= y for two quotients with non-zero denominators
FracLeq(x, y) ==
    LET s == Sign(x.d) * Sign(y.d)
    IN  x = y \/ x.n * y.d * s <= y.n * x.d * s

\* distress indices on, between and beyond the two thresholds of get_score
IndexProbes ==
    { Frac(-1, 1), Frac(122, 100), Frac(123, 100), Frac(2, 1),
      Frac(289, 100), Frac(29, 10), Frac(5, 1) }

\* the score get_score gives the row with its distress index replaced by z
ScoreAt(r, z) ==
    IF z = r.Z_Score THEN r.Credit_Score ELSE get_score([r EXCEPT !.Z_Score = z])

\* C11: for two inputs of get_score that agree on CFO/PAT, Debt-to-Equity,
\* Current Ratio, Interest Coverage and the manipulation flag, the score is
\* non-decreasing in the distress index; in particular an index below 1.23
\* never scores higher than an index of 2.9 or more.
C11_ScoreMonotoneInIndex ==
    row # NoRow =>
        LET zs    == IndexProbes \cup {row.Z_Score}
            score == [z \in zs |-> ScoreAt(row, z)]
        IN  \A z1 \in zs, z2 \in zs :
              /\ FracLeq(z1, z2) => score[z1] <= score[z2]
              /\ (FracLt(z1, 123, 100) /\ ~FracLt(z2, 29, 10)) =>
                     score[z1] <= score[z2]

\* a row in the distress band that gains the whole 25 points at index 2.9
C11_Witness ==
    /\ row # NoRow
    /\ FracLt(row.Z_Score, 123, 100)
    /\ ScoreAt(row, Frac(29, 10)) = row.Credit_Score + 25

\* C13: the floor at 0 of get_score is never reached: the deductions total at
\* most 85, every Credit_Score is a multiple of 5 in 15..100, and 15 occurs
\* only when all six conditions fire with the distress index below 1.23.
C13_FloorNeverReached ==
    row # NoRow =>
        /\ 100 - Deductions(row) > 0
        /\ row.Credit_Score = 100 - Deductions(row)
        /\ row.Credit_Score % 5 = 0
        /\ row.Credit_Score >= 15 /\ row.Credit_Score <= 100
        /\ row.Credit_Score = 15 =>
              /\ FracLt(row.Z_Score, 123, 100)
              /\ FracLt(row.CFO_to_PAT, 8, 10)
              /\ FracGt(row.Debt_Equity, 2, 1)
              /\ FracLt(row.Current_Ratio, 1, 1)
              /\ FracLt(row.ICR, 3, 2)
              /\ row.Beneish_Flag_DSRI = 1

\* the lowest score, reported: a rejection in the distress zone
C13_Witness ==
    /\ memo # NoMemo
    /\ row.Credit_Score = 15
    /\ zone = "DISTRESS"
    /\ memo.verdict = "REJECT"
    /\ Len(memo.forensic_notes) = 4

\* C14: a memo with at least one forensic note belongs to a row whose
\* Credit_Score is at most 90; a Credit_Score of 100 always comes with the
\* "No material forensic red flags detected." text.
C14_NotesImplyDeduction ==
    memo # NoMemo =>
        /\ memo.forensic_notes # <<>> => row.Credit_Score <= 90
        /\ row.Credit_Score = 100 => memo.forensic_text = <<NoRedFlags>>

\* a memo whose only note is the receivables alert, for a score of 90
C14_Witness ==
    /\ memo # NoMemo
    /\ memo.forensic_notes = <<NoteReceivables>>
    /\ row.Credit_Score = 90

\* the converse fails: points lost, and the "no red flags" text all the same
C14_ConverseFails ==
    /\ memo # NoMemo
    /\ row.Credit_Score < 100
    /\ memo.forensic_text = <<NoRedFlags>>

\* the text is a numeral: digits, with thousands separators and a sign or not
IsNumeral(text) ==
    LET IsSeparator(ch) == ch = ","
        NotSeparator(ch) == ch # ","
        plain == SelectSeq(text, NotSeparator)
        body  == IF plain # <<>> /\ plain[1] \in {"-", "+"} THEN Tail(plain) ELSE plain
    IN  /\ text # <<>>
        /\ ~IsSeparator(text[1])
        /\ AllDigits(body)

\* the number a field stands for: its numeral's value, 0 for anything else
NumberOf(text) ==
    LET NotSeparator(ch) == ch # ","
        plain == SelectSeq(text, NotSeparator)
    IN  IF ~IsNumeral(text) THEN 0
        ELSE IF plain[1] = "-" THEN -NumeralValue(Tail(plain))
        ELSE IF plain[1] = "+" THEN NumeralValue(Tail(plain))
        ELSE NumeralValue(plain)

\* C12: load_dataset never raises on the content of a field, and every record
\* it returns has all 17 line items as finite numbers: an absent, empty or
\* non-numeric field is 0, a numeral with thousands separators is its number,
\* an unparsable fiscal year is 0, and a missing file gives the empty dataset.
C12_LoaderTotal ==
    csv # NoCsv =>
        /\ raised = NoError
        /\ cached =>
              IF ~csv.exists THEN raw_df = <<>>
              ELSE /\ Len(raw_df) = Len(csv.rows)
                   /\ \A i \in 1..Len(raw_df), k \in 1..Len(cols) :
                         /\ cols[k] \in DOMAIN raw_df[i]
                         /\ raw_df[i][cols[k]].kind = "num"
                         /\ raw_df[i][cols[k]].v =
                               IF cols[k] \in csv.header
                               THEN NumberOf(csv.rows[i][cols[k]])
                               ELSE 0
                   /\ "Year" \in csv.header =>
                         \A i \in 1..Len(raw_df) :
                            LET text == csv.rows[i]["Year"]
                            IN  /\ AllDigits(text) =>
                                      raw_df[i]["Year"] = NumeralValue(text)
                                /\ ~IsNumeral(text) => raw_df[i]["Year"] = 0

====
